---------------------------- MODULE Spec2Model ----------------------------
(***************************************************************************)
(* A model of src/multi_lingual_rouge_score/multi_lingual_rouge.py: the    *)
(* RougeScorer.score dispatch loop, the n-gram scorer, the pairwise LCS    *)
(* scorer, the LCS table with its iterative backtracking, and the          *)
(* summary-level (union-LCS) scorer.                                       *)
(*                                                                         *)
(* A text is a sequence of one-character strings.  The external BERT       *)
(* tokenizer is modelled by its visible contract here: whitespace          *)
(* separates and is dropped, every other character is one token.  Python   *)
(* floats are modelled as exact fractions <<numerator, denominator>> in    *)
(* lowest terms, so that equality of two scores is equality of values.     *)
(***************************************************************************)
EXTENDS Integers, Sequences, FiniteSets, TLC

VARIABLES
    pc,                 \* position of the call being executed
    rouge_types,        \* RougeScorer.rouge_types (set by __init__)
    target, prediction, \* the two texts given to score()
    target_tokens, prediction_tokens,
    k,                  \* index of the next label of the for loop of score()
    result,             \* the dict built by score(): label -> Score
    raised,             \* the exception that ended the call, or None
    fn,                 \* the scoring function applied (SpecFns)
    ngram_n,            \* the n of an n-gram call
    scores,             \* the Score a scoring function returned
    ref, can,           \* arguments of lcs_ind / _backtrack_norec
    t, i, j, lcs,       \* locals of lcs_ind / _backtrack_norec
    ref_sent, can_sent, \* arguments of _summary_level_lcs
    token_cnts_r, token_cnts_c, hits,
    r_idx,              \* index of the current reference sentence r
    union,              \* the union LCS (tokens) of the current r
    u_idx               \* index of the next token of the inner loop

scoreVars == <<rouge_types, target, prediction, target_tokens,
               prediction_tokens, k, result, raised>>
fnVars == <<fn, ngram_n, scores>>
lcsVars == <<ref, can, t, i, j, lcs>>
sumVars == <<ref_sent, can_sent, token_cnts_r, token_cnts_c, hits, r_idx,
             union, u_idx>>
vars == <<pc, scoreVars, fnVars, lcsVars, sumVars>>

None == "None"

(***************************************************************************)
(* Bounds of the model.                                                    *)
(***************************************************************************)
MaxTypes == 2       \* labels in rouge_types
MaxText == 3        \* characters of a text given to score()
MaxLen == 3         \* tokens of a sequence given to a pairwise function
MaxN == 3           \* the largest n-gram order applied directly
MaxSents == 2       \* sentences of one side of _summary_level_lcs
MaxTok == 3         \* total tokens of one side of _summary_level_lcs

NL == "\n"
TextChars == {"a", "b", NL}
Tokens == {"a", "b", "c"}
SumTokens == {"a", "b"}

SeqsUpTo(S, n) == UNION {[1..l -> S] : l \in 0..n}

(***************************************************************************)
(* Arithmetic: fractions in lowest terms, and Python's true division.      *)
(***************************************************************************)
Min(a, b) == IF a < b THEN a ELSE b
Max(a, b) == IF a > b THEN a ELSE b

RECURSIVE GCD(_, _)
GCD(a, b) == IF b = 0 THEN a ELSE GCD(b, a % b)

ZeroDivisionError == "ZeroDivisionError"

\* a / b of Python 3 on non-negative integers
Div(a, b) ==
    IF b = 0 THEN ZeroDivisionError
    ELSE LET g == GCD(a, b) IN <<a \div g, b \div g>>

Zero == <<0, 1>>
One == <<1, 1>>

\* scoring.fmeasure(precision, recall) of rouge_score:
\*   2 * p * r / (p + r) if p + r > 0 else 0.0
Fmeasure(p, r) ==
    IF p = ZeroDivisionError \/ r = ZeroDivisionError THEN ZeroDivisionError
    ELSE IF p[1] * r[2] + r[1] * p[2] > 0
         THEN Div(2 * p[1] * r[1], p[1] * r[2] + r[1] * p[2])
         ELSE Zero

Score(p, r, f) == [precision |-> p, recall |-> r, fmeasure |-> f]
ZeroScore == Score(Zero, Zero, Zero)

RECURSIVE SumOver(_, _)
SumOver(f, S) ==
    IF S = {} THEN 0
    ELSE LET x == CHOOSE y \in S : TRUE IN f[x] + SumOver(f, S \ {x})

(***************************************************************************)
(* _create_ngrams and _score_ngrams.  A Counter is a function from the     *)
(* keys it holds to their counts; a key it does not hold counts 0.         *)
(***************************************************************************)
Count(counter, key) == IF key \in DOMAIN counter THEN counter[key] ELSE 0

\* range(len(tokens) - n) in place of range(len(tokens) - n + 1)
CreateNgrams_OffByOne(tokens, n) ==
    LET starts == 1..(Len(tokens) - n)
        grams == {SubSeq(tokens, s, s + n - 1) : s \in starts}
    IN [g \in grams |->
           Cardinality({s \in starts : SubSeq(tokens, s, s + n - 1) = g})]

CreateNgrams(tokens, n) ==
    LET starts == 1..(Len(tokens) - n + 1)
        grams == {SubSeq(tokens, s, s + n - 1) : s \in starts}
    IN [g \in grams |->
           Cardinality({s \in starts : SubSeq(tokens, s, s + n - 1) = g})]

\* the min with the prediction's count forgotten
ScoreNgrams_NoMin(target_ngrams, prediction_ngrams) ==
    LET intersection_ngrams_count ==
            SumOver(target_ngrams, DOMAIN target_ngrams)
        target_ngrams_count == SumOver(target_ngrams, DOMAIN target_ngrams)
        prediction_ngrams_count ==
            SumOver(prediction_ngrams, DOMAIN prediction_ngrams)
        precision ==
            Div(intersection_ngrams_count, Max(prediction_ngrams_count, 1))
        recall == Div(intersection_ngrams_count, Max(target_ngrams_count, 1))
    IN Score(precision, recall, Fmeasure(precision, recall))

\* the max(_, 1) guards forgotten
ScoreNgrams_NoGuard(target_ngrams, prediction_ngrams) ==
    LET both == [g \in DOMAIN target_ngrams |->
                    Min(target_ngrams[g], Count(prediction_ngrams, g))]
        intersection_ngrams_count == SumOver(both, DOMAIN both)
        target_ngrams_count == SumOver(target_ngrams, DOMAIN target_ngrams)
        prediction_ngrams_count ==
            SumOver(prediction_ngrams, DOMAIN prediction_ngrams)
        precision == Div(intersection_ngrams_count, prediction_ngrams_count)
        recall == Div(intersection_ngrams_count, target_ngrams_count)
    IN Score(precision, recall, Fmeasure(precision, recall))

ScoreNgrams(target_ngrams, prediction_ngrams) ==
    LET both == [g \in DOMAIN target_ngrams |->
                    Min(target_ngrams[g], Count(prediction_ngrams, g))]
        intersection_ngrams_count == SumOver(both, DOMAIN both)
        target_ngrams_count == SumOver(target_ngrams, DOMAIN target_ngrams)
        prediction_ngrams_count ==
            SumOver(prediction_ngrams, DOMAIN prediction_ngrams)
        precision ==
            Div(intersection_ngrams_count, Max(prediction_ngrams_count, 1))
        recall == Div(intersection_ngrams_count, Max(target_ngrams_count, 1))
    IN Score(precision, recall, Fmeasure(precision, recall))

(***************************************************************************)
(* _lcs_table, _score_lcs.  Sequences are 1-based here, so ref[i] is the   *)
(* code's ref[i - 1]; the table keeps the code's indices 0..rows, 0..cols. *)
(***************************************************************************)
\* min in place of max on a mismatch
LcsTable_Min(rf, cn) ==
    LET rows == Len(rf)
        cols == Len(cn)
        lcs_table[a \in 0..rows, b \in 0..cols] ==
            IF a = 0 \/ b = 0 THEN 0
            ELSE IF rf[a] = cn[b] THEN lcs_table[a - 1, b - 1] + 1
            ELSE Min(lcs_table[a - 1, b], lcs_table[a, b - 1])
    IN [a \in 0..rows |-> [b \in 0..cols |-> lcs_table[a, b]]]

LcsTable(rf, cn) ==
    LET rows == Len(rf)
        cols == Len(cn)
        lcs_table[a \in 0..rows, b \in 0..cols] ==
            IF a = 0 \/ b = 0 THEN 0
            ELSE IF rf[a] = cn[b] THEN lcs_table[a - 1, b - 1] + 1
            ELSE Max(lcs_table[a - 1, b], lcs_table[a, b - 1])
    IN [a \in 0..rows |-> [b \in 0..cols |-> lcs_table[a, b]]]

ScoreLcs(tt, pt) ==
    IF tt = <<>> \/ pt = <<>> THEN ZeroScore
    ELSE LET lcs_table == LcsTable(tt, pt)
             lcs_length == lcs_table[Len(tt)][Len(pt)]
             precision == Div(lcs_length, Len(pt))
             recall == Div(lcs_length, Len(tt))
         IN Score(precision, recall, Fmeasure(precision, recall))

(***************************************************************************)
(* _backtrack_norec, lcs_ind, _find_union, _union_lcs.  The indices the    *)
(* backtracking records are the code's 0-based indices into ref.           *)
(***************************************************************************)
\* line 129: ref[i - 1] == can[j - 1]
BtMatch(rf, cn, a, b) == rf[a] = cn[b]
\* the comparison of line 133 reversed
BtLeft_Reversed(tb, a, b) == tb[a][b - 1] < tb[a - 1][b]
\* line 133: t[i][j - 1] > t[i - 1][j]
BtLeft(tb, a, b) == tb[a][b - 1] > tb[a - 1][b]
\* line 130: lcs.insert(0, i - 1)
BtRecord(acc, a) == <<a - 1>> \o acc

RECURSIVE BtLoop(_, _, _, _, _, _)
BtLoop(tb, rf, cn, a, b, acc) ==
    IF ~(a > 0 /\ b > 0) THEN acc
    ELSE IF BtMatch(rf, cn, a, b)
         THEN BtLoop(tb, rf, cn, a - 1, b - 1, BtRecord(acc, a))
    ELSE IF BtLeft(tb, a, b) THEN BtLoop(tb, rf, cn, a, b - 1, acc)
    ELSE BtLoop(tb, rf, cn, a - 1, b, acc)

BacktrackNorec(tb, rf, cn) == BtLoop(tb, rf, cn, Len(rf), Len(cn), <<>>)

LcsInd(rf, cn) == BacktrackNorec(LcsTable(rf, cn), rf, cn)

RECURSIVE Sorted(_)
Sorted(S) ==
    IF S = {} THEN <<>>
    ELSE LET lo == CHOOSE x \in S : \A y \in S : x <= y
         IN <<lo>> \o Sorted(S \ {lo})

FindUnion(lcs_list) ==
    Sorted(UNION {{lcs_list[c][x] : x \in 1..Len(lcs_list[c])} :
                  c \in 1..Len(lcs_list)})

UnionLcs(rf, c_list) ==
    LET lcs_list == [c \in 1..Len(c_list) |-> LcsInd(rf, c_list[c])]
        idx == FindUnion(lcs_list)
    IN [x \in 1..Len(idx) |-> rf[idx[x] + 1]]

(***************************************************************************)
(* _summary_level_lcs.  The operators below are the pieces of the          *)
(* function; SummaryLevelLcs runs them to the end, and the actions of      *)
(* SpecFns run the same pieces one loop iteration at a time.               *)
(***************************************************************************)
RECURSIVE TotalLen(_)
TotalLen(sents) ==
    IF sents = <<>> THEN 0 ELSE Len(Head(sents)) + TotalLen(Tail(sents))

RECURSIVE Flatten(_)
Flatten(sents) ==
    IF sents = <<>> THEN <<>> ELSE Head(sents) \o Flatten(Tail(sents))

\* collections.Counter() updated with every sentence
CounterOf(sents) ==
    LET all == Flatten(sents)
    IN [tok \in {all[x] : x \in 1..Len(all)} |->
           Cardinality({x \in 1..Len(all) : all[x] = tok})]

\* lines 148-154: the two early returns
SumEarly(rs, cs) ==
    \/ rs = <<>> \/ cs = <<>>
    \/ TotalLen(cs) = 0 \/ TotalLen(rs) = 0

\* the candidate-side test of line 173 forgotten
CreditGuard_RefOnly(cr, cc, tok) == Count(cr, tok) > 0

\* line 173
CreditGuard(cr, cc, tok) == Count(cc, tok) > 0 /\ Count(cr, tok) > 0

\* lines 173-176 on st = [r |-> token_cnts_r, c |-> token_cnts_c, hits |-> hits]
Credit(st, tok) ==
    IF CreditGuard(st.r, st.c, tok)
    THEN [r |-> [st.r EXCEPT ![tok] = @ - 1],
          c |-> [st.c EXCEPT ![tok] = @ - 1],
          hits |-> st.hits + 1]
    ELSE st

RECURSIVE CreditAll(_, _)
CreditAll(st, toks) ==
    IF toks = <<>> THEN st ELSE CreditAll(Credit(st, Head(toks)), Tail(toks))

RECURSIVE SentLoop(_, _, _)
SentLoop(st, rs, cs) ==
    IF rs = <<>> THEN st
    ELSE SentLoop(CreditAll(st, UnionLcs(Head(rs), cs)), Tail(rs), cs)

\* m and n exchanged
SumScore_Swapped(h, m, n) ==
    LET recall == Div(h, n)
        precision == Div(h, m)
    IN Score(precision, recall, Fmeasure(precision, recall))

\* lines 178-181
SumScore(h, m, n) ==
    LET recall == Div(h, m)
        precision == Div(h, n)
    IN Score(precision, recall, Fmeasure(precision, recall))

SummaryLevelLcs(rs, cs) ==
    IF SumEarly(rs, cs) THEN ZeroScore
    ELSE LET st == SentLoop([r |-> CounterOf(rs), c |-> CounterOf(cs),
                             hits |-> 0], rs, cs)
         IN SumScore(st.hits, TotalLen(rs), TotalLen(cs))

(***************************************************************************)
(* RougeScorer: labels, the tokenizer, get_sents, and the loop of score(). *)
(* A label is the sequence of its characters.                              *)
(***************************************************************************)
Rouge == <<"r", "o", "u", "g", "e">>
Digits == {"0", "1", "2", "3", "4", "5", "6", "7", "8", "9"}
Whitespace == {NL, " "}

RougeL == Rouge \o <<"L">>
RougeLsum == Rouge \o <<"L", "s", "u", "m">>

\* the labels a scorer is constructed with in this model
RougeTypes ==
    {RougeL, RougeLsum,
     Rouge \o <<"1">>, Rouge \o <<"2">>, Rouge \o <<"0">>,
     Rouge \o <<"1", "0">>, Rouge \o <<"X">>, Rouge \o <<"1", NL>>}

\* re.match(r"rouge[0-9]$", rouge_type): anchored at the start; "$" matches
\* at the end of the string and also just before a newline that ends it
ReMatch(label) ==
    /\ Len(label) >= 6
    /\ SubSeq(label, 1, 5) = Rouge
    /\ label[6] \in Digits
    /\ \/ Len(label) = 6
       \/ Len(label) = 7 /\ label[7] = NL

DigitVal(c) ==
    CASE c = "0" -> 0 [] c = "1" -> 1 [] c = "2" -> 2 [] c = "3" -> 3
      [] c = "4" -> 4 [] c = "5" -> 5 [] c = "6" -> 6 [] c = "7" -> 7
      [] c = "8" -> 8 [] c = "9" -> 9

RECURSIVE DecimalVal(_)
DecimalVal(ds) ==
    IF ds = <<>> THEN 0
    ELSE 10 * DecimalVal(SubSeq(ds, 1, Len(ds) - 1)) + DigitVal(ds[Len(ds)])

\* int(rouge_type[5:]) on a label ReMatch accepts: int() ignores the
\* whitespace around the digits
IntOfSuffix(label) ==
    DecimalVal(SelectSeq(SubSeq(label, 6, Len(label)),
                         LAMBDA c : c \notin Whitespace))

\* tokenizer.tokenize(text): whitespace separates tokens and is dropped
Tokenize(text) == SelectSeq(text, LAMBDA c : c \notin Whitespace)

\* text.split("\n")
RECURSIVE SplitLines(_, _)
SplitLines(text, cur) ==
    IF text = <<>> THEN <<cur>>
    ELSE IF Head(text) = NL THEN <<cur>> \o SplitLines(Tail(text), <<>>)
    ELSE SplitLines(Tail(text), Append(cur, Head(text)))

\* get_sents (lines 46-50)
GetSents(text) == SelectSeq(SplitLines(text, <<>>), LAMBDA x : Len(x) > 0)

\* what lines 52-55 would hand to _summary_level_lcs
SentTokens(text) ==
    LET sents == GetSents(text)
    IN [x \in 1..Len(sents) |-> Tokenize(sents[x])]

\* self._stemmer is read once per sentence (lines 53, 55); __init__ never
\* sets it and scoring.BaseScorer does not define it
StemmerIsRead(tg, pr) == GetSents(tg) # <<>> \/ GetSents(pr) # <<>>

\* result[rouge_type] = scores
Store(res, label, sc) ==
    [x \in DOMAIN res \cup {label} |-> IF x = label THEN sc ELSE res[x]]

InLoop == pc = "score_loop" /\ k <= Len(rouge_types)

Raise(exc) ==
    /\ pc' = "raised"
    /\ raised' = exc
    /\ UNCHANGED <<rouge_types, target, prediction, target_tokens,
                   prediction_tokens, k, result>>

Keep(label, sc) ==
    /\ result' = Store(result, label, sc)
    /\ k' = k + 1
    /\ UNCHANGED <<pc, rouge_types, target, prediction, target_tokens,
                   prediction_tokens, raised>>

\* lines 36-38
CallScore ==
    /\ pc = "constructed"
    /\ \E tg \in SeqsUpTo(TextChars, MaxText),
          pr \in SeqsUpTo(TextChars, MaxText) :
          /\ target' = tg
          /\ prediction' = pr
          /\ target_tokens' = Tokenize(tg)
          /\ prediction_tokens' = Tokenize(pr)
    /\ result' = <<>>
    /\ k' = 1
    /\ pc' = "score_loop"
    /\ UNCHANGED <<rouge_types, raised, fnVars, lcsVars, sumVars>>

\* lines 41-43, 68
RougeLBranch ==
    /\ InLoop
    /\ rouge_types[k] = RougeL
    /\ Keep(rouge_types[k], ScoreLcs(target_tokens, prediction_tokens))
    /\ UNCHANGED <<fnVars, lcsVars, sumVars>>

\* lines 44-55: the read of self._stemmer raises
RougeLsumRaise ==
    /\ InLoop
    /\ rouge_types[k] # RougeL
    /\ rouge_types[k] = RougeLsum
    /\ StemmerIsRead(target, prediction)
    /\ Raise("AttributeError")
    /\ UNCHANGED <<fnVars, lcsVars, sumVars>>

\* lines 44-57, 68: neither text has a non-empty line
RougeLsumBranch ==
    /\ InLoop
    /\ rouge_types[k] # RougeL
    /\ rouge_types[k] = RougeLsum
    /\ ~StemmerIsRead(target, prediction)
    /\ Keep(rouge_types[k],
            SummaryLevelLcs(SentTokens(target), SentTokens(prediction)))
    /\ UNCHANGED <<fnVars, lcsVars, sumVars>>

\* lines 58-65, 68
RougeNBranch ==
    /\ InLoop
    /\ rouge_types[k] \notin {RougeL, RougeLsum}
    /\ ReMatch(rouge_types[k])
    /\ LET n == IntOfSuffix(rouge_types[k])
       IN /\ ~(n <= 0)
          /\ Keep(rouge_types[k],
                  ScoreNgrams(CreateNgrams(target_tokens, n),
                              CreateNgrams(prediction_tokens, n)))
    /\ UNCHANGED <<fnVars, lcsVars, sumVars>>

\* lines 58-62
RougeNRaise ==
    /\ InLoop
    /\ rouge_types[k] \notin {RougeL, RougeLsum}
    /\ ReMatch(rouge_types[k])
    /\ IntOfSuffix(rouge_types[k]) <= 0
    /\ Raise("ValueError: rougen requires positive n")
    /\ UNCHANGED <<fnVars, lcsVars, sumVars>>

\* lines 66-67
InvalidRaise ==
    /\ InLoop
    /\ rouge_types[k] \notin {RougeL, RougeLsum}
    /\ ~ReMatch(rouge_types[k])
    /\ Raise("ValueError: Invalid rouge type")
    /\ UNCHANGED <<fnVars, lcsVars, sumVars>>

\* line 70
ReturnResult ==
    /\ pc = "score_loop"
    /\ k > Len(rouge_types)
    /\ pc' = "returned"
    /\ UNCHANGED <<scoreVars, fnVars, lcsVars, sumVars>>

NoFn == fn = None /\ ngram_n = 0 /\ scores = None
NoLcs ==
    /\ ref = <<>> /\ can = <<>> /\ t = <<>> /\ i = 0 /\ j = 0 /\ lcs = <<>>
NoSum ==
    /\ ref_sent = <<>> /\ can_sent = <<>>
    /\ token_cnts_r = <<>> /\ token_cnts_c = <<>> /\ hits = 0
    /\ r_idx = 0 /\ union = <<>> /\ u_idx = 0
NoScore ==
    /\ rouge_types = <<>> /\ target = <<>> /\ prediction = <<>>
    /\ target_tokens = <<>> /\ prediction_tokens = <<>>
    /\ k = 0 /\ result = <<>> /\ raised = None

\* RougeScorer.__init__ (lines 20-33) has run
Init ==
    /\ pc = "constructed"
    /\ rouge_types \in SeqsUpTo(RougeTypes, MaxTypes)
    /\ target = <<>> /\ prediction = <<>>
    /\ target_tokens = <<>> /\ prediction_tokens = <<>>
    /\ k = 0 /\ result = <<>> /\ raised = None
    /\ NoFn /\ NoLcs /\ NoSum

Next ==
    \/ CallScore
    \/ RougeLBranch
    \/ RougeLsumRaise
    \/ RougeLsumBranch
    \/ RougeNBranch
    \/ RougeNRaise
    \/ InvalidRaise
    \/ ReturnResult

Spec == Init /\ [][Next]_vars

(***************************************************************************)
(* SpecLcs: lcs_ind(ref, can), the while loop of _backtrack_norec one      *)
(* iteration at a time.                                                    *)
(***************************************************************************)
InitLcs ==
    /\ pc = "lcs_ind"
    /\ ref \in SeqsUpTo(Tokens, MaxLen)
    /\ can \in SeqsUpTo(Tokens, MaxLen)
    /\ t = <<>> /\ i = 0 /\ j = 0 /\ lcs = <<>>
    /\ NoScore /\ NoFn /\ NoSum

\* line 203, then lines 125-127
BuildTable ==
    /\ pc = "lcs_ind"
    /\ t' = LcsTable(ref, can)
    /\ i' = Len(ref)
    /\ j' = Len(can)
    /\ lcs' = <<>>
    /\ pc' = "backtrack"
    /\ UNCHANGED <<ref, can, scoreVars, fnVars, sumVars>>

InWhile == pc = "backtrack" /\ i > 0 /\ j > 0

\* lines 129-132
BacktrackTake ==
    /\ InWhile
    /\ BtMatch(ref, can, i, j)
    /\ lcs' = BtRecord(lcs, i)
    /\ i' = i - 1
    /\ j' = j - 1
    /\ UNCHANGED <<pc, ref, can, t, scoreVars, fnVars, sumVars>>

\* lines 133-134
BacktrackLeft ==
    /\ InWhile
    /\ ~BtMatch(ref, can, i, j)
    /\ BtLeft(t, i, j)
    /\ j' = j - 1
    /\ UNCHANGED <<pc, ref, can, t, i, lcs, scoreVars, fnVars, sumVars>>

\* lines 135-136
BacktrackUp ==
    /\ InWhile
    /\ ~BtMatch(ref, can, i, j)
    /\ ~BtLeft(t, i, j)
    /\ i' = i - 1
    /\ UNCHANGED <<pc, ref, can, t, j, lcs, scoreVars, fnVars, sumVars>>

\* line 137
BacktrackReturn ==
    /\ pc = "backtrack"
    /\ ~(i > 0 /\ j > 0)
    /\ pc' = "done"
    /\ UNCHANGED <<lcsVars, scoreVars, fnVars, sumVars>>

NextLcs ==
    \/ BuildTable
    \/ BacktrackTake
    \/ BacktrackLeft
    \/ BacktrackUp
    \/ BacktrackReturn

\* the call is synchronous: an iteration that can run does run
SpecLcs == InitLcs /\ [][NextLcs]_vars /\ WF_vars(NextLcs)

(***************************************************************************)
(* SpecFns: the scoring functions applied to arguments drawn from bounded  *)
(* sets; the two loops of _summary_level_lcs one iteration at a time.      *)
(***************************************************************************)
SentLists ==
    {sl \in SeqsUpTo(SeqsUpTo(SumTokens, MaxTok), MaxSents) :
        TotalLen(sl) <= MaxTok}

InitFns ==
    /\ pc = "idle"
    /\ NoScore /\ NoFn /\ NoLcs /\ NoSum

\* _score_lcs(target_tokens, prediction_tokens), lines 87-107
CallScoreLcs ==
    /\ pc = "idle"
    /\ \E tt \in SeqsUpTo(Tokens, MaxLen), pt \in SeqsUpTo(Tokens, MaxLen) :
          /\ target_tokens' = tt
          /\ prediction_tokens' = pt
          /\ scores' = ScoreLcs(tt, pt)
    /\ fn' = "_score_lcs"
    /\ pc' = "done"
    /\ UNCHANGED <<rouge_types, target, prediction, k, result, raised,
                   ngram_n, lcsVars, sumVars>>

\* _score_ngrams(_create_ngrams(.., n), _create_ngrams(.., n)), lines 63-65
CallScoreNgrams ==
    /\ pc = "idle"
    /\ \E tt \in SeqsUpTo(Tokens, MaxLen), pt \in SeqsUpTo(Tokens, MaxLen),
          n \in 1..MaxN :
          /\ target_tokens' = tt
          /\ prediction_tokens' = pt
          /\ ngram_n' = n
          /\ scores' = ScoreNgrams(CreateNgrams(tt, n), CreateNgrams(pt, n))
    /\ fn' = "_score_ngrams"
    /\ pc' = "done"
    /\ UNCHANGED <<rouge_types, target, prediction, k, result, raised,
                   lcsVars, sumVars>>

\* lines 148-154
SumEarlyReturn ==
    /\ pc = "idle"
    /\ \E rs \in SentLists, cs \in SentLists :
          /\ SumEarly(rs, cs)
          /\ ref_sent' = rs
          /\ can_sent' = cs
    /\ scores' = ZeroScore
    /\ fn' = "_summary_level_lcs"
    /\ pc' = "done"
    /\ UNCHANGED <<scoreVars, ngram_n, lcsVars, token_cnts_r, token_cnts_c,
                   hits, r_idx, union, u_idx>>

\* lines 148-165
SumEnter ==
    /\ pc = "idle"
    /\ \E rs \in SentLists, cs \in SentLists :
          /\ ~SumEarly(rs, cs)
          /\ ref_sent' = rs
          /\ can_sent' = cs
          /\ token_cnts_r' = CounterOf(rs)
          /\ token_cnts_c' = CounterOf(cs)
    /\ hits' = 0
    /\ r_idx' = 1
    /\ fn' = "_summary_level_lcs"
    /\ pc' = "sum_r"
    /\ UNCHANGED <<scoreVars, ngram_n, scores, lcsVars, union, u_idx>>

\* lines 166-167
SumUnion ==
    /\ pc = "sum_r"
    /\ r_idx <= Len(ref_sent)
    /\ union' = UnionLcs(ref_sent[r_idx], can_sent)
    /\ u_idx' = 1
    /\ pc' = "sum_t"
    /\ UNCHANGED <<scoreVars, fnVars, lcsVars, ref_sent, can_sent,
                   token_cnts_r, token_cnts_c, hits, r_idx>>

\* lines 172-176, one token of the union LCS
SumToken ==
    /\ pc = "sum_t"
    /\ u_idx <= Len(union)
    /\ LET st == Credit([r |-> token_cnts_r, c |-> token_cnts_c,
                         hits |-> hits], union[u_idx])
       IN /\ token_cnts_r' = st.r
          /\ token_cnts_c' = st.c
          /\ hits' = st.hits
    /\ u_idx' = u_idx + 1
    /\ UNCHANGED <<pc, scoreVars, fnVars, lcsVars, ref_sent, can_sent,
                   r_idx, union>>

\* line 172 exhausted: the next r of line 166
SumNextSent ==
    /\ pc = "sum_t"
    /\ u_idx > Len(union)
    /\ r_idx' = r_idx + 1
    /\ pc' = "sum_r"
    /\ UNCHANGED <<scoreVars, fnVars, lcsVars, ref_sent, can_sent,
                   token_cnts_r, token_cnts_c, hits, union, u_idx>>

\* lines 178-181
SumReturn ==
    /\ pc = "sum_r"
    /\ r_idx > Len(ref_sent)
    /\ scores' = SumScore(hits, TotalLen(ref_sent), TotalLen(can_sent))
    /\ pc' = "done"
    /\ UNCHANGED <<scoreVars, fn, ngram_n, lcsVars, sumVars>>

NextFns ==
    \/ CallScoreLcs
    \/ CallScoreNgrams
    \/ SumEarlyReturn
    \/ SumEnter
    \/ SumUnion
    \/ SumToken
    \/ SumNextSent
    \/ SumReturn

SpecFns == InitFns /\ [][NextFns]_vars

(***************************************************************************)
(* The claims.                                                             *)
(***************************************************************************)
TokSet(sq) == {sq[x] : x \in 1..Len(sq)}
Disjoint(sa, sb) == TokSet(sa) \cap TokSet(sb) = {}
InUnit(q) == q # ZeroDivisionError /\ q[2] > 0 /\ 0 <= q[1] /\ q[1] <= q[2]
OneScore == Score(One, One, One)

\* "rouge" followed by one or more decimal digits that form a positive integer
IsRougeN(label) ==
    /\ Len(label) >= 6
    /\ SubSeq(label, 1, 5) = Rouge
    /\ \A x \in 6..Len(label) : label[x] \in Digits
    /\ DecimalVal(SubSeq(label, 6, Len(label))) > 0

ValidLabel(label) == label \in {RougeL, RougeLsum} \/ IsRougeN(label)

\* the label at position x made the call raise / has been passed by the loop
RaisedAt(x) == pc = "raised" /\ k = x
Passed(x) == pc \in {"score_loop", "returned", "raised"} /\ k > x

\* C1: every requested label "rouge" + digits with a positive value n, also a
\* multi-digit one, is scored by _score_ngrams over the two n-gram Counters
\* and raises no error.
C1_NgramDispatch ==
    \A x \in 1..Len(rouge_types) :
        IsRougeN(rouge_types[x]) =>
            /\ ~RaisedAt(x)
            /\ Passed(x) =>
                 LET n == DecimalVal(SubSeq(rouge_types[x], 6,
                                            Len(rouge_types[x])))
                 IN /\ rouge_types[x] \in DOMAIN result
                    /\ result[rouge_types[x]] =
                         ScoreNgrams(CreateNgrams(target_tokens, n),
                                     CreateNgrams(prediction_tokens, n))

\* C2: the label rougeLsum on a freshly constructed scorer is scored by
\* _summary_level_lcs over the token lists of the non-empty lines of the two
\* texts, and the call does not raise.
C2_RougeLsumScored ==
    \A x \in 1..Len(rouge_types) :
        rouge_types[x] = RougeLsum =>
            /\ ~RaisedAt(x)
            /\ Passed(x) =>
                 /\ RougeLsum \in DOMAIN result
                 /\ result[RougeLsum] =
                      SummaryLevelLcs(SentTokens(target),
                                      SentTokens(prediction))

\* C3: a call whose labels hold one that is not rougeL, rougeLsum or
\* rouge<positive integer> never returns a result map, and the invalid label
\* never gets a Score.
C3_InvalidLabelAborts ==
    \A x \in 1..Len(rouge_types) :
        ~ValidLabel(rouge_types[x]) =>
            /\ pc # "returned"
            /\ rouge_types[x] \notin DOMAIN result

InSumLoop ==
    \/ pc \in {"sum_r", "sum_t"}
    \/ pc = "done" /\ fn = "_summary_level_lcs"
                   /\ ~SumEarly(ref_sent, can_sent)

\* hits credited to tok so far: what the reference-side counter has lost
Credited(tok) == Count(CounterOf(ref_sent), tok) - Count(token_cnts_r, tok)

\* C4: from the start of the hit-counting loop of _summary_level_lcs to its
\* return, no entry of token_cnts_r or token_cnts_c is negative, the hits
\* credited to a token are at most the smaller of its initial reference and
\* candidate counts, hits is their sum, and hits <= min(m, n).
C4_HitsBounded ==
    InSumLoop =>
        LET r0 == CounterOf(ref_sent)
            c0 == CounterOf(can_sent)
            toks == DOMAIN r0 \cup DOMAIN c0 \cup DOMAIN token_cnts_r
                        \cup DOMAIN token_cnts_c
            cred == [tok \in toks |-> Credited(tok)]
        IN /\ \A tok \in DOMAIN token_cnts_r : token_cnts_r[tok] >= 0
           /\ \A tok \in DOMAIN token_cnts_c : token_cnts_c[tok] >= 0
           /\ \A tok \in toks :
                 /\ cred[tok] = Count(c0, tok) - Count(token_cnts_c, tok)
                 /\ 0 <= cred[tok]
                 /\ cred[tok] <= Min(Count(r0, tok), Count(c0, tok))
           /\ hits = SumOver(cred, toks)
           /\ hits <= Min(TotalLen(ref_sent), TotalLen(can_sent))

\* a union-LCS token is about to be skipped after an earlier hit
C4_Witness ==
    /\ pc = "sum_t"
    /\ u_idx <= Len(union)
    /\ ~CreditGuard(token_cnts_r, token_cnts_c, union[u_idx])
    /\ hits >= 1

\* C5: a non-empty sequence scored against itself gets precision = recall =
\* fmeasure = 1 from _score_lcs and from _score_ngrams for 1 <= n <= len.
C5_SelfScoreIsOne ==
    (/\ pc = "done"
     /\ fn \in {"_score_lcs", "_score_ngrams"}
     /\ target_tokens = prediction_tokens
     /\ target_tokens # <<>>
     /\ fn = "_score_ngrams" => ngram_n <= Len(target_tokens))
        => scores = OneScore

\* bigrams of a three-token sequence with a repeated token, against itself
C5_Witness ==
    /\ pc = "done"
    /\ fn = "_score_ngrams"
    /\ ngram_n = 2
    /\ target_tokens = prediction_tokens
    /\ Len(target_tokens) = 3
    /\ Cardinality(TokSet(target_tokens)) = 2
    /\ scores = OneScore

\* C6: inputs that share no token get precision = recall = fmeasure = 0 from
\* _score_ngrams (every n >= 1), _score_lcs and _summary_level_lcs.
C6_DisjointIsZero ==
    /\ (/\ pc = "done"
        /\ fn \in {"_score_lcs", "_score_ngrams"}
        /\ Disjoint(target_tokens, prediction_tokens)) => scores = ZeroScore
    /\ (/\ pc = "done"
        /\ fn = "_summary_level_lcs"
        /\ Disjoint(Flatten(ref_sent), Flatten(can_sent)))
           => scores = ZeroScore

\* the summary-level loops ran on two non-empty sides without a common token
C6_Witness ==
    /\ pc = "done"
    /\ fn = "_summary_level_lcs"
    /\ ~SumEarly(ref_sent, can_sent)
    /\ Len(ref_sent) = 2
    /\ Disjoint(Flatten(ref_sent), Flatten(can_sent))
    /\ scores = ZeroScore

\* the number of windows of width n in a sequence
WindowCount(sq, n) == Max(Len(sq) - n + 1, 0)

\* C7: the Score of _score_ngrams and of _score_lcs has precision, recall
\* and fmeasure in [0, 1] for all sequences, no division by zero occurs, the
\* n-gram intersection count exceeds neither side's n-gram count, and the LCS
\* length exceeds neither sequence's length.
C7_ScoresInUnit ==
    (pc = "done" /\ fn \in {"_score_lcs", "_score_ngrams"}) =>
        /\ InUnit(scores.precision)
        /\ InUnit(scores.recall)
        /\ InUnit(scores.fmeasure)
        /\ fn = "_score_ngrams" =>
              LET tcount == WindowCount(target_tokens, ngram_n)
                  pcount == WindowCount(prediction_tokens, ngram_n)
                  \* the intersection count is precision * max(pcount, 1)
                  pnum == scores.precision[1] * Max(pcount, 1)
                  pden == scores.precision[2]
              IN /\ pnum <= pcount * pden
                 /\ pnum <= tcount * pden
        /\ fn = "_score_lcs" =>
              \* the LCS length is precision * len(prediction_tokens)
              scores.precision[1] * Len(prediction_tokens)
                  <= Len(target_tokens) * scores.precision[2]

\* the prediction is shorter than n and the target is not
C7_Witness ==
    /\ pc = "done"
    /\ fn = "_score_ngrams"
    /\ Len(prediction_tokens) < ngram_n
    /\ Len(target_tokens) >= ngram_n
    /\ scores = ZeroScore

\* C8: the table of _lcs_table(ref, can) has len(ref)+1 rows of len(can)+1
\* cells, row 0 and column 0 are zero, and every other cell is at least the
\* cell above, at least the cell to the left, and one of: the cell above, the
\* cell to the left, the diagonal cell plus one.
C8_TableInvariant ==
    pc \in {"backtrack", "done"} =>
        /\ DOMAIN t = 0..Len(ref)
        /\ \A a \in 0..Len(ref) :
              /\ DOMAIN t[a] = 0..Len(can)
              /\ t[a][0] = 0
        /\ \A b \in 0..Len(can) : t[0][b] = 0
        /\ \A a \in 1..Len(ref), b \in 1..Len(can) :
              /\ t[a][b] >= t[a - 1][b]
              /\ t[a][b] >= t[a][b - 1]
              /\ t[a][b] \in {t[a - 1][b], t[a][b - 1], t[a - 1][b - 1] + 1}

\* a full-size table with matches and mismatches
C8_Witness ==
    /\ pc = "done"
    /\ Len(ref) = 3
    /\ Len(can) = 3
    /\ t[3][3] = 2
    /\ t[1][1] = 0

RECURSIVE IsSubseq(_, _)
IsSubseq(sa, sb) ==
    IF sa = <<>> THEN TRUE
    ELSE IF sb = <<>> THEN FALSE
    ELSE IF Head(sa) = Head(sb) THEN IsSubseq(Tail(sa), Tail(sb))
    ELSE IsSubseq(sa, Tail(sb))

\* the tokens of rf at the 0-based indices idx
TokensAt(rf, idx) == [x \in 1..Len(idx) |-> rf[idx[x] + 1]]

\* the length of a longest common subsequence, by enumeration
LongestCommon(rf, cn) ==
    LET lens == {Cardinality(ix) : ix \in
                    {iy \in SUBSET (0..(Len(rf) - 1)) :
                        IsSubseq(TokensAt(rf, Sorted(iy)), cn)}}
    IN CHOOSE l \in lens : \A o \in lens : o <= l

LcsIndResult ==
    /\ \A x \in 1..Len(lcs) : lcs[x] \in 0..(Len(ref) - 1)
    /\ \A x \in 1..(Len(lcs) - 1) : lcs[x] < lcs[x + 1]
    /\ IsSubseq(TokensAt(ref, lcs), can)
    /\ Len(lcs) = t[Len(ref)][Len(can)]
    /\ Len(lcs) = LongestCommon(ref, can)

\* C9: lcs_ind(ref, can) terminates, and what it returns is a strictly
\* ascending list of indices into ref whose tokens are a subsequence of can
\* and whose length is t[len(ref)][len(can)], the length of a longest common
\* subsequence.
C9_LcsIndCorrect == [](pc = "done" => LcsIndResult) /\ <>(pc = "done")

\* a run that took the j-decrement of line 134 and returned two indices
C9_Witness ==
    /\ pc = "done"
    /\ Len(lcs) = 2
    /\ Len(can) = 3
    /\ can[3] \notin TokSet(ref)

\* C10: with one reference sentence R and one candidate sentence C,
\* _summary_level_lcs returns the Score of _score_lcs(R, C), and where the
\* loops run, hits is the LCS length.
C10_SingleSentenceAgrees ==
    (/\ pc = "done"
     /\ fn = "_summary_level_lcs"
     /\ Len(ref_sent) = 1
     /\ Len(can_sent) = 1) =>
        /\ scores = ScoreLcs(ref_sent[1], can_sent[1])
        /\ ~SumEarly(ref_sent, can_sent) =>
              hits = LongestCommon(ref_sent[1], can_sent[1])

\* one sentence a side, of different lengths, with an LCS of two tokens
C10_Witness ==
    /\ pc = "done"
    /\ fn = "_summary_level_lcs"
    /\ Len(ref_sent) = 1
    /\ Len(can_sent) = 1
    /\ Len(ref_sent[1]) # Len(can_sent[1])
    /\ hits = 2

=============================================================================
